---- MODULE Spec2Model ----
(***************************************************************************)
(* Model of the event-tracker service: the Event validation/rectification *)
(* core (event.go), the nullable timestamp (null-time.go), the webhook     *)
(* signature verifiers and the request handlers that funnel into the       *)
(* persistence sink.                                                       *)
(*                                                                         *)
(* Time: a time.Time is a record [inst, off]: inst is the instant counted  *)
(* from Go's zero time (0001-01-01T00:00:00Z, so IsZero <=> inst = 0) and  *)
(* off its zone offset, both in the same unit.  The textual (RFC 3339)     *)
(* form of a timestamp carries the wall reading inst + off and the offset. *)
(***************************************************************************)
EXTENDS Integers, Sequences, FiniteSets, TLC

\* ---------------------------------------------------------------- bounds
MaxTime == 3
MaxID == 2
MaxRows == 1
MaxTasks == 1
MaxOffsetSeconds == 3700

\* ------------------------------------------------------------- time.Time
Offsets == {-1, 0, 1}
Instants == 0..MaxTime
Times == [inst : Instants, off : Offsets]
ZeroTime == [inst |-> 0, off |-> 0]

IsZero(t) == t.inst = 0

After(t, u) == t.inst > u.inst

\* time.Now(): the wall clock never reads the zero instant
ClockValues == {[inst |-> i, off |-> 0] : i \in 1..MaxTime}

\* rand.Int63(): a non-negative 63-bit integer, sampled here as 0..MaxID
Int63Values == 0..MaxID

\* ------------------------------------------------- JSON text of a timestamp
JSONNull == [kind |-> "null"]
JSONBad == [kind |-> "bad"]

\* time.Time.MarshalJSON: RFC 3339 text = wall-clock reading plus offset
TimeMarshalJSON(t) == [kind |-> "time", wall |-> t.inst + t.off, off |-> t.off]

\* time.Time.UnmarshalJSON on a timestamp string
TimeParse(j) == [inst |-> j.wall - j.off, off |-> j.off]

\* json.Unmarshal(data, &t) with t *time.Time: nil for null, error for
\* anything that is not a timestamp string
JSONUnmarshalTimePtr(data) ==
  IF data.kind = "null" THEN [err |-> FALSE, isNil |-> TRUE, t |-> ZeroTime]
  ELSE IF data.kind = "time" THEN [err |-> FALSE, isNil |-> FALSE, t |-> TimeParse(data)]
  ELSE [err |-> TRUE, isNil |-> TRUE, t |-> ZeroTime]

\* --------------------------------------------------------------- NullTime
NullTimes == [Time : Times, Valid : BOOLEAN]
AbsentTime == [Time |-> ZeroTime, Valid |-> FALSE]

\* variant: the else branch is forgotten, null / zero input leaves n as it was
NullTimeUnmarshalJSON_NoReset(n, data) ==
  LET r == JSONUnmarshalTimePtr(data) IN
  IF r.err THEN [n |-> n, err |-> TRUE]
  ELSE IF ~r.isNil /\ ~IsZero(r.t)
       THEN [n |-> [Time |-> r.t, Valid |-> TRUE], err |-> FALSE]
       ELSE [n |-> n, err |-> FALSE]

\* variant: n.Valid is set but n.Time is not stored
NullTimeUnmarshalJSON_NoStore(n, data) ==
  LET r == JSONUnmarshalTimePtr(data) IN
  IF r.err THEN [n |-> n, err |-> TRUE]
  ELSE IF ~r.isNil /\ ~IsZero(r.t)
       THEN [n |-> [Time |-> n.Time, Valid |-> TRUE], err |-> FALSE]
       ELSE [n |-> [Time |-> ZeroTime, Valid |-> FALSE], err |-> FALSE]

NullTimeUnmarshalJSON(n, data) ==
  LET r == JSONUnmarshalTimePtr(data) IN
  IF r.err THEN [n |-> n, err |-> TRUE]
  ELSE IF ~r.isNil /\ ~IsZero(r.t)
       THEN [n |-> [Time |-> r.t, Valid |-> TRUE], err |-> FALSE]
       ELSE [n |-> [Time |-> ZeroTime, Valid |-> FALSE], err |-> FALSE]

\* variant: the Valid flag is not consulted
NullTimeMarshalJSON_IgnoreValid(n) == TimeMarshalJSON(n.Time)

NullTimeMarshalJSON(n) ==
  IF n.Valid THEN TimeMarshalJSON(n.Time) ELSE JSONNull

\* ------------------------------------------------------------------ Event
EventTypes == {"", "DEPLOYMENT", "custom"}
NotesValues == {"", "v1.2.3 rollout"}
CallerIDs == {-1, 0, MaxID}

ErrNone == ""
ErrEventType == "event_type parameter is required"
ErrNotes == "notes parameter is required"

\* variant: start_time is always overwritten with the clock
DefaultStartTime_Always(d, now) == [d EXCEPT !.StartTime = now]

DefaultStartTime(d, now) ==
  IF IsZero(d.StartTime) THEN [d EXCEPT !.StartTime = now] ELSE d

\* variant: after-or-equal instead of strictly after
RectifyEndTime_AfterOrEqual(d) ==
  IF d.EndTime.Valid /\ After(d.StartTime, d.EndTime.Time)
  THEN [d EXCEPT !.EndTime.Valid = FALSE]
  ELSE d

\* variant: the comparison is the wrong way round
RectifyEndTime_Reversed(d) ==
  IF d.EndTime.Valid /\ ~After(d.StartTime, d.EndTime.Time)
  THEN [d EXCEPT !.EndTime.Valid = FALSE]
  ELSE d

RectifyEndTime(d) ==
  IF d.EndTime.Valid /\ ~After(d.EndTime.Time, d.StartTime)
  THEN [d EXCEPT !.EndTime.Valid = FALSE]
  ELSE d

\* variant: a caller-supplied ID is honoured
AssignID_KeepCaller(d, r) == IF d.ID # 0 THEN d ELSE [d EXCEPT !.ID = r]

AssignID(d, r) == [d EXCEPT !.ID = r]

\* variant: the candidate is rectified before the required fields are checked
ValidateAndRectify_RectifyFirst(d, now, r) ==
  LET e == AssignID(RectifyEndTime(DefaultStartTime(d, now)), r) IN
  IF Len(d.EventType) = 0
  THEN [event |-> e, err |-> ErrEventType, reads |-> <<>>, ids |-> <<>>]
  ELSE IF Len(d.Notes) = 0
  THEN [event |-> e, err |-> ErrNotes, reads |-> <<>>, ids |-> <<>>]
  ELSE [event |-> e, err |-> ErrNone,
        reads |-> IF IsZero(d.StartTime) THEN <<now>> ELSE <<>>,
        ids |-> <<r>>]

\* now is the value time.Now() returns, r the rand.Int63() draw
\* reads: the values time.Now() returned; ids: the values assigned to d.ID
ValidateAndRectify(d, now, r) ==
  IF Len(d.EventType) = 0
  THEN [event |-> d, err |-> ErrEventType, reads |-> <<>>, ids |-> <<>>]
  ELSE IF Len(d.Notes) = 0
  THEN [event |-> d, err |-> ErrNotes, reads |-> <<>>, ids |-> <<>>]
  ELSE [event |-> AssignID(RectifyEndTime(DefaultStartTime(d, now)), r),
        err |-> ErrNone,
        reads |-> IF IsZero(d.StartTime) THEN <<now>> ELSE <<>>,
        ids |-> <<r>>]

\* call, nt: the call under test of ValidateAndRectify and of the NullTime
\* methods.  db: the events table.  req, resp: the request handled last and
\* what handling it did.  tasks: the goroutines started for chat replies.
\* slackLogChannel: the --slack-log-channel flag.
VARIABLES call, nt, db, req, resp, tasks, slackLogChannel

vars == <<call, nt, db, req, resp, tasks, slackLogChannel>>

server == <<db, req, resp, tasks, slackLogChannel>>

NoRequest == [route |-> "none"]
NoResponse == [status |-> 0]

ServerIdle ==
  /\ db = <<>>
  /\ req = NoRequest
  /\ resp = NoResponse
  /\ tasks = <<>>
  /\ slackLogChannel = "channel"

Candidates ==
  [ID : CallerIDs, EventType : EventTypes, Notes : NotesValues,
   StartTime : Times, EndTime : NullTimes, Metadata : {[form |-> "nil", of |-> "null"]}, DryRun : {FALSE}]

NoCall == [done |-> FALSE]

InitEvent ==
  /\ \E c \in Candidates : call = [done |-> FALSE, in |-> c]
  /\ nt = [op |-> "idle"]
  /\ ServerIdle

CallValidateAndRectify ==
  /\ ~call.done
  /\ \E now \in ClockValues, r \in Int63Values :
       LET res == ValidateAndRectify(call.in, now, r) IN
       call' = [done |-> TRUE, in |-> call.in, out |-> res.event,
                err |-> res.err, now |-> now, rnd |-> r]
  /\ UNCHANGED <<nt, server>>

NextEvent == CallValidateAndRectify

SpecEvent == InitEvent /\ [][NextEvent]_vars

\* ---------------------------------------------- NullTime (de)serialisation
JSONTimes == [kind : {"time"}, wall : (-1)..(MaxTime + 1), off : Offsets]
JSONInputs == {JSONNull, JSONBad} \cup JSONTimes

InitNullTime ==
  /\ \E n \in NullTimes, data \in JSONInputs :
       nt = [op |-> "idle", n |-> n, data |-> data]
  /\ call = NoCall
  /\ ServerIdle

\* n.UnmarshalJSON(data)
CallUnmarshalJSON ==
  /\ nt.op = "idle"
  /\ LET res == NullTimeUnmarshalJSON(nt.n, nt.data) IN
     nt' = [op |-> "unmarshal", n |-> nt.n, data |-> nt.data,
            out |-> res.n, err |-> res.err]
  /\ UNCHANGED <<call, server>>

\* n.MarshalJSON()
CallMarshalJSON ==
  /\ nt.op = "idle"
  /\ nt' = [op |-> "marshal", n |-> nt.n, data |-> nt.data,
            json |-> NullTimeMarshalJSON(nt.n)]
  /\ UNCHANGED <<call, server>>

\* m.UnmarshalJSON(n.MarshalJSON()) into a NullTime m with arbitrary contents
CallRoundTrip ==
  /\ nt.op = "idle"
  /\ \E m \in NullTimes :
       LET j == NullTimeMarshalJSON(nt.n)
           res == NullTimeUnmarshalJSON(m, j) IN
       nt' = [op |-> "roundtrip", n |-> nt.n, data |-> nt.data, into |-> m,
              json |-> j, out |-> res.n, err |-> res.err]
  /\ UNCHANGED <<call, server>>

NextNullTime == CallUnmarshalJSON \/ CallMarshalJSON \/ CallRoundTrip

SpecNullTime == InitNullTime /\ [][NextNullTime]_vars

\* ------------------------------- zone-offset suffix of the interactive form
\* The user's offset arrives in seconds; a duration is counted here in
\* seconds too (time.Second is the unit), a minute being 60 and an hour 3600.
Abs(x) == IF x < 0 THEN -x ELSE x

\* variant: the duration is cut down to the whole minute
DurationRound_Truncate(d, m) == d - (d % m)

\* time.Duration.Round(m) for d >= 0: halfway values round away from zero
DurationRound(d, m) ==
  LET r == d % m IN
  IF r + r < m THEN d - r ELSE d + m - r

\* sign, hours and minutes as ParseState computes them from tzOffsetSeconds
OffsetSuffix(tzOffsetSeconds) ==
  LET tzOffset == DurationRound(Abs(tzOffsetSeconds), 60)
      hours == tzOffset \div 3600
      minutes == (tzOffset \div 60) - 60 * hours
  IN [sign |-> IF tzOffsetSeconds < 0 THEN "-" ELSE "+",
      hours |-> hours, minutes |-> minutes]

\* fmt.Sprintf("%sT%s:00%s%02d:%02d", date, time, sign, hours, minutes): the
\* date and time-of-day strings are carried as the wall reading they spell
TimestampText(wall, suffix) == [wall |-> wall, suffix |-> suffix]

TzOffsets == (-MaxOffsetSeconds)..MaxOffsetSeconds

InitSuffix ==
  /\ \E tz \in TzOffsets, start \in 1..2, end \in 1..2 :
       call = [done |-> FALSE, tz |-> tz, startWall |-> start, endWall |-> end]
  /\ nt = [op |-> "idle"]
  /\ ServerIdle

\* the two texts ParseState hands to time.Parse and to EndTime.UnmarshalJSON
CallFormatTimes ==
  /\ ~call.done
  /\ LET suffix == OffsetSuffix(call.tz) IN
     call' = [done |-> TRUE, tz |-> call.tz, startWall |-> call.startWall,
              endWall |-> call.endWall,
              start |-> TimestampText(call.startWall, suffix),
              end |-> TimestampText(call.endWall, suffix)]
  /\ UNCHANGED <<nt, server>>

NextSuffix == CallFormatTimes

SpecSuffix == InitSuffix /\ [][NextSuffix]_vars

\* =================================================================== server
\* ------------------------------------------------------------ encoding/hex
\* A hex pair is two digits; a digit outside 0..15 is not a hex character.
HexDigits == 0..15
IsHexPair(p) == p.hi \in HexDigits /\ p.lo \in HexDigits
NonHexPair == [hi |-> 16, lo |-> 16]

\* hex.EncodeToString
HexEncode(bytes) ==
  [i \in 1..Len(bytes) |-> [hi |-> bytes[i] \div 16, lo |-> bytes[i] % 16]]

FirstBadPair(src) ==
  IF \A i \in 1..Len(src) : IsHexPair(src[i]) THEN Len(src) + 1
  ELSE CHOOSE i \in 1..Len(src) :
         ~IsHexPair(src[i]) /\ \A j \in 1..(i - 1) : IsHexPair(src[j])

\* hex.Decode(dst, src) into a zeroed dst of n bytes, its error ignored by the
\* callers: pairs are written in order up to the first invalid one, the rest
\* of dst stays zero; writing past dst panics.
HexDecodeInto(n, src) ==
  LET k == FirstBadPair(src) - 1 IN
  [panic |-> k > n,
   bytes |-> [i \in 1..n |-> IF i <= k THEN 16 * src[i].hi + src[i].lo ELSE 0]]

\* ------------------------------------------------- source-control payloads
\* A branch or ref is a sequence of text fragments; strings.Contains is
\* contiguous containment (the empty string is contained in every string).
Contains(s, sub) ==
  \E i \in 0..(Len(s) - Len(sub)) :
     \A j \in 1..Len(sub) : s[i + j] = sub[j]

NoPullRequest ==
  [ok |-> TRUE, Action |-> "", Merged |-> FALSE, Title |-> "", UpdatedAt |-> ZeroTime]

NoPush ==
  [ok |-> TRUE, Ref |-> <<>>, DefaultBranch |-> <<>>, MasterBranch |-> <<>>,
   Message |-> "", Timestamp |-> ZeroTime]

T1 == [inst |-> 1, off |-> 0]

GitHubBodies ==
  {"garbage", "pr_merged", "pr_open", "pr_untitled", "pr_closed", "pr_nodate",
   "push_main", "push_feature", "push_nomsg", "push_nobranch"}

\* json.NewDecoder(r.Body).Decode(&PullRequestData{}): fields that the body
\* does not carry keep their zero values
DecodePullRequest(body) ==
  CASE body = "garbage" -> [NoPullRequest EXCEPT !.ok = FALSE]
    [] body = "pr_merged" ->
         [ok |-> TRUE, Action |-> "closed", Merged |-> TRUE, Title |-> "Fix login",
          UpdatedAt |-> T1]
    [] body = "pr_open" ->
         [ok |-> TRUE, Action |-> "opened", Merged |-> FALSE, Title |-> "Fix login",
          UpdatedAt |-> T1]
    [] body = "pr_untitled" ->
         [ok |-> TRUE, Action |-> "closed", Merged |-> TRUE, Title |-> "",
          UpdatedAt |-> T1]
    [] body = "pr_closed" ->
         [ok |-> TRUE, Action |-> "closed", Merged |-> FALSE, Title |-> "Fix login",
          UpdatedAt |-> T1]
    [] body = "pr_nodate" ->
         [ok |-> TRUE, Action |-> "closed", Merged |-> TRUE, Title |-> "Fix login",
          UpdatedAt |-> ZeroTime]
    [] OTHER -> NoPullRequest

\* json.NewDecoder(r.Body).Decode(&PushData{})
DecodePush(body) ==
  CASE body = "garbage" -> [NoPush EXCEPT !.ok = FALSE]
    [] body = "push_main" ->
         [ok |-> TRUE, Ref |-> <<"refs/heads/", "main">>, DefaultBranch |-> <<"main">>,
          MasterBranch |-> <<"master">>, Message |-> "release", Timestamp |-> T1]
    [] body = "push_feature" ->
         [ok |-> TRUE, Ref |-> <<"refs/heads/", "feature">>,
          DefaultBranch |-> <<"main">>, MasterBranch |-> <<"master">>,
          Message |-> "wip", Timestamp |-> T1]
    [] body = "push_nomsg" ->
         [ok |-> TRUE, Ref |-> <<"refs/heads/", "main">>, DefaultBranch |-> <<"main">>,
          MasterBranch |-> <<"master">>, Message |-> "", Timestamp |-> ZeroTime]
    [] body = "push_nobranch" ->
         [ok |-> TRUE, Ref |-> <<"refs/heads/", "feature">>,
          DefaultBranch |-> <<"main">>, MasterBranch |-> <<>>,
          Message |-> "wip", Timestamp |-> T1]
    [] OTHER -> NoPush

\* ------------------------------------------------------------------- HMAC
\* The keyed digests of the raw bodies under the configured secret, as byte
\* strings: distinct bodies have distinct digests; some digests end in a
\* zero byte.
BodyCode(body) ==
  CASE body = "garbage" -> 1
    [] body = "pr_merged" -> 2
    [] body = "pr_open" -> 3
    [] body = "pr_untitled" -> 4
    [] body = "push_main" -> 5
    [] body = "push_feature" -> 6
    [] body = "pr_closed" -> 8
    [] body = "pr_nodate" -> 9
    [] body = "push_nobranch" -> 10
    [] OTHER -> 7

\* hmac.New(sha1.New, v.Secret) over body
HMACSHA1(body) ==
  <<16 * BodyCode(body) + 10, IF BodyCode(body) % 2 = 0 THEN 0 ELSE 200 + BodyCode(body)>>

\* hmac.New(sha256.New, v.Secret) over body
HMACSHA256(body) ==
  <<255 - BodyCode(body), 16 * BodyCode(body) + 3,
    IF BodyCode(body) % 3 = 0 THEN 0 ELSE 100 + BodyCode(body)>>

\* hmac.Equal
HMACEqual(a, b) == a = b

\* ------------------------------------------------------- signature headers
\* A header value is a prefix followed by hex pairs; the absent header is
\* the empty string.
NoHeader == [prefix |-> "", hex |-> <<>>]
HeaderLen(h) == Len(h.prefix) + 2 * Len(h.hex)
HasPrefix(h, prefix) == h.prefix = prefix

signaturePrefixSHA1 == "sha1="
signaturePrefixSHA256 == "sha256="
signatureLengthSHA1 == Len(signaturePrefixSHA1) + 2 * Len(HMACSHA1("garbage"))
signatureLengthSHA256 == Len(signaturePrefixSHA256) + 2 * Len(HMACSHA256("garbage"))

\* variant: the prefix is not checked
verifySignatureSHA1_NoPrefix(signature, body) ==
  IF HeaderLen(signature) # signatureLengthSHA1 THEN FALSE
  ELSE HMACEqual(HMACSHA1(body),
                 HexDecodeInto(Len(HMACSHA1(body)), signature.hex).bytes)

verifySignatureSHA1(signature, body) ==
  IF HeaderLen(signature) # signatureLengthSHA1
     \/ ~HasPrefix(signature, signaturePrefixSHA1)
  THEN FALSE
  ELSE HMACEqual(HMACSHA1(body),
                 HexDecodeInto(Len(HMACSHA1(body)), signature.hex).bytes)

verifySignatureSHA256(signature, body) ==
  IF HeaderLen(signature) # signatureLengthSHA256
     \/ ~HasPrefix(signature, signaturePrefixSHA256)
  THEN FALSE
  ELSE HMACEqual(HMACSHA256(body),
                 HexDecodeInto(Len(HMACSHA256(body)), signature.hex).bytes)

\* variant: a valid SHA-1 signature is enough
parseHook_SHA1Only(sig1, sig256, body, readable) ==
  IF HeaderLen(sig1) = 0 THEN "Missing X-Hub-Signature header"
  ELSE IF HeaderLen(sig256) = 0 THEN "Missing X-Hub-Signature-256 header"
  ELSE IF ~readable THEN "read error"
  ELSE IF ~verifySignatureSHA1(sig1, body) THEN "Invalid SHA1 signature"
  ELSE ErrNone

\* variant: the SHA-256 header may be omitted
parseHook_Optional256(sig1, sig256, body, readable) ==
  IF HeaderLen(sig1) = 0 THEN "Missing X-Hub-Signature header"
  ELSE IF ~readable THEN "read error"
  ELSE IF ~verifySignatureSHA1(sig1, body) THEN "Invalid SHA1 signature"
  ELSE IF HeaderLen(sig256) # 0 /\ ~verifySignatureSHA256(sig256, body)
       THEN "Invalid SHA256 signature"
  ELSE ErrNone

\* readable: ioutil.ReadAll(req.Body) succeeds
parseHook(sig1, sig256, body, readable) ==
  IF HeaderLen(sig1) = 0 THEN "Missing X-Hub-Signature header"
  ELSE IF HeaderLen(sig256) = 0 THEN "Missing X-Hub-Signature-256 header"
  ELSE IF ~readable THEN "read error"
  ELSE IF ~verifySignatureSHA1(sig1, body) THEN "Invalid SHA1 signature"
  ELSE IF ~verifySignatureSHA256(sig256, body) THEN "Invalid SHA256 signature"
  ELSE ErrNone

\* ------------------------------------------------------------ persistence
\* The row an INSERT stores; an absent end_time is stored as NULL.
Row(e) ==
  [id |-> e.ID, event_type |-> e.EventType, start_time |-> e.StartTime,
   end_time |-> IF e.EndTime.Valid THEN [null |-> FALSE, t |-> e.EndTime.Time]
                                   ELSE [null |-> TRUE, t |-> ZeroTime],
   notes |-> e.Notes, metadata |-> e.Metadata.of]

ErrDB == "database error"
ErrSlack == "slack error"

NewEvent ==
  [ID |-> 0, EventType |-> "", Notes |-> "", StartTime |-> ZeroTime,
   EndTime |-> AbsentTime, Metadata |-> [form |-> "nil", of |-> "null"],
   DryRun |-> FALSE]

\* What a call leaves behind: err, the event, the table, and the trace of
\* what it did: the results of the INSERT statements executed, the ids
\* assigned by validation, the clock values read, the results of the chat
\* posts attempted.
Effect(err, e, table, execs, v, posts) ==
  [err |-> err, event |-> e, db |-> table, execs |-> execs, ids |-> v.ids,
   reads |-> v.reads, posts |-> posts]

NoValidation == [ids |-> <<>>, reads |-> <<>>]

\* text/template execution of slackTemplate on the event: the PULL REQUEST
\* branch reads map fields of the metadata; the other branch calls
\* .MarshalString on the event, a method that is not among the sources, so
\* whether that branch renders (renderOK) is left open
TemplateOK(e, renderOK) == e.EventType = "PULL REQUEST" \/ renderOK

\* postOK: the chat.postMessage call succeeds
logToSlackChannel(e, channel, renderOK, postOK) ==
  IF Len(channel) = 0 THEN [err |-> ErrNone, event |-> e, posts |-> <<>>]
  ELSE LET e1 == [e EXCEPT !.Metadata.form = "generic"] IN
       IF ~TemplateOK(e1, renderOK) THEN [err |-> ErrSlack, event |-> e1, posts |-> <<>>]
       ELSE IF ~postOK THEN [err |-> ErrSlack, event |-> e1, posts |-> <<"error">>]
       ELSE [err |-> ErrNone, event |-> e1, posts |-> <<"ok">>]

\* variant: the row is written before the event is validated
writeToDBAndLog_WriteFirst(table, e, now, r, dbOK, channel, renderOK, postOK) ==
  LET v == ValidateAndRectify(e, now, r) IN
  IF v.err # ErrNone
  THEN Effect(v.err, v.event, Append(table, Row(e)), <<"ok">>, v, <<>>)
  ELSE Effect(ErrNone, v.event, Append(table, Row(v.event)), <<"ok">>, v, <<>>)

\* dbOK: the INSERT succeeds
writeToDBAndLog(table, e, now, r, dbOK, channel, renderOK, postOK) ==
  LET v == ValidateAndRectify(e, now, r) IN
  IF v.err # ErrNone THEN Effect(v.err, v.event, table, <<>>, v, <<>>)
  ELSE IF ~v.event.DryRun
  THEN IF ~dbOK THEN Effect(ErrDB, v.event, table, <<"error">>, v, <<>>)
       ELSE LET l == logToSlackChannel(v.event, channel, renderOK, postOK) IN
            Effect(l.err, l.event, Append(table, Row(v.event)), <<"ok">>, v, l.posts)
  ELSE Effect(ErrNone, v.event, table, <<>>, v, <<>>)

\* variant: the statement is executed a second time
writeToDB_Twice(table, e, dryRun, dbOK) ==
  IF ~dryRun
  THEN IF ~dbOK THEN Effect(ErrDB, e, table, <<"error">>, NoValidation, <<>>)
       ELSE Effect(ErrNone, e, Append(Append(table, Row(e)), Row(e)),
                   <<"ok", "ok">>, NoValidation, <<>>)
  ELSE Effect(ErrNone, e, table, <<>>, NoValidation, <<>>)

\* server.writeToDB(ctx, event, dryRun): the persistence sink the direct API
\* and the interactive submission call after validating, the event's DryRun
\* field giving dryRun; a dry run logs the statement instead of executing it
writeToDB(table, e, dryRun, dbOK) ==
  IF ~dryRun
  THEN IF ~dbOK THEN Effect(ErrDB, e, table, <<"error">>, NoValidation, <<>>)
       ELSE Effect(ErrNone, e, Append(table, Row(e)), <<"ok">>, NoValidation, <<>>)
  ELSE Effect(ErrNone, e, table, <<>>, NoValidation, <<>>)

\* --------------------------------------------------------------- responses
NilData == [kind |-> "nil"]
\* The event as response data.  byPointer: the handler hands respondWithJSON
\* a *Event, so encoding/json can call NullTime.MarshalJSON (pointer receiver)
\* on end_time; given an Event value the field is not addressable and is
\* encoded as the struct it embeds, {"Time": ..., "Valid": ...}.
EventData(e, byPointer) ==
  [kind |-> "event", event |-> e,
   end_time |-> IF byPointer THEN NullTimeMarshalJSON(e.EndTime)
                ELSE [kind |-> "struct", Time |-> TimeMarshalJSON(e.EndTime.Time),
                      Valid |-> e.EndTime.Valid]]
RequestData == [kind |-> "request"]

\* What handling a request leaves behind: the response (status 0: none was
\* written), whether the handler behind the middleware ran, and the effects.
\* lookups: the results of the users.info calls made; spawn: the goroutines
\* started.
Outcome(status, data, next, eff) ==
  [status |-> status, data |-> data, next |-> next, db |-> eff.db,
   execs |-> eff.execs, ids |-> eff.ids, reads |-> eff.reads,
   posts |-> eff.posts, lookups |-> <<>>, spawn |-> <<>>]

NoEffect(table) == Effect(ErrNone, NewEvent, table, <<>>, NoValidation, <<>>)

\* the same effect with the validation that preceded the call
Validated(v, eff) == [eff EXCEPT !.ids = v.ids, !.reads = v.reads]

\* variant: a pull request that was closed is recorded, merged or not
PullRequestHandler_AnyClosed(table, body, now, r, dbOK, channel, renderOK, postOK) ==
  LET request == DecodePullRequest(body) IN
  IF ~request.ok THEN Outcome(400, NilData, TRUE, NoEffect(table))
  ELSE IF request.Action # "closed"
  THEN Outcome(200, RequestData, TRUE, NoEffect(table))
  ELSE LET event == [NewEvent EXCEPT !.EventType = "PULL REQUEST",
                                     !.StartTime = request.UpdatedAt,
                                     !.Notes = request.Title,
                                     !.Metadata = [form |-> "typed", of |-> body]]
           eff == writeToDBAndLog(table, event, now, r, dbOK, channel, renderOK, postOK) IN
       IF eff.err # ErrNone THEN Outcome(500, NilData, TRUE, eff)
       ELSE Outcome(200, EventData(eff.event, TRUE), TRUE, eff)

\* pull-request-handler.go
PullRequestHandler(table, body, now, r, dbOK, channel, renderOK, postOK) ==
  LET request == DecodePullRequest(body) IN
  IF ~request.ok THEN Outcome(400, NilData, TRUE, NoEffect(table))
  ELSE IF request.Action # "closed" \/ ~request.Merged
  THEN Outcome(200, RequestData, TRUE, NoEffect(table))
  ELSE LET event == [NewEvent EXCEPT !.EventType = "PULL REQUEST",
                                     !.StartTime = request.UpdatedAt,
                                     !.Notes = request.Title,
                                     !.Metadata = [form |-> "typed", of |-> body]]
           eff == writeToDBAndLog(table, event, now, r, dbOK, channel, renderOK, postOK) IN
       IF eff.err # ErrNone THEN Outcome(500, NilData, TRUE, eff)
       ELSE Outcome(200, EventData(eff.event, TRUE), TRUE, eff)

\* push-handler.go
PushHandler(table, body, now, r, dbOK, channel, renderOK, postOK) ==
  LET request == DecodePush(body) IN
  IF ~request.ok THEN Outcome(400, NilData, TRUE, NoEffect(table))
  ELSE IF ~Contains(request.Ref, request.DefaultBranch)
          /\ ~Contains(request.Ref, request.MasterBranch)
  THEN Outcome(200, RequestData, TRUE, NoEffect(table))
  ELSE LET event == [NewEvent EXCEPT !.EventType = "PUSH",
                                     !.StartTime = request.Timestamp,
                                     !.Notes = request.Message,
                                     !.Metadata = [form |-> "typed", of |-> body]]
           eff == writeToDBAndLog(table, event, now, r, dbOK, channel, renderOK, postOK) IN
       IF eff.err # ErrNone THEN Outcome(500, NilData, TRUE, eff)
       ELSE Outcome(200, EventData(eff.event, TRUE), TRUE, eff)

\* variant: an event type without a handler is turned away
NotHandledHandler_Reject(table) == Outcome(400, NilData, TRUE, NoEffect(table))

\* the route for every other event type
NotHandledHandler(table) == Outcome(200, NilData, TRUE, NoEffect(table))

\* variant: the body read for verification is not put back
RestoredBody_Consumed(body) == "garbage"

\* req.Body = ioutil.NopCloser(bytes.NewBuffer(payload)): what the next
\* handler reads from the request after parseHook has read the body
RestoredBody(body) == body

\* GitHubWebHookValidator.Middleware around the routed handler's outcome
GitHubMiddleware(table, sig1, sig256, body, readable, handled) ==
  IF parseHook(sig1, sig256, body, readable) # ErrNone
  THEN Outcome(400, NilData, FALSE, NoEffect(table))
  ELSE handled

\* -------------------------------------------------------------- direct API
\* json.NewDecoder(r.Body).Decode(&event): DryRun is not a JSON field; a
\* missing or null start_time leaves the zero time; end_time goes through
\* NullTime.UnmarshalJSON
DecodeEvent(body) ==
  LET end == NullTimeUnmarshalJSON(AbsentTime, body.end_time) IN
  IF body.malformed \/ body.start_time.kind = "bad" \/ end.err
  THEN [ok |-> FALSE, event |-> NewEvent]
  ELSE [ok |-> TRUE,
        event |-> [NewEvent EXCEPT
                     !.ID = body.ID,
                     !.EventType = body.event_type,
                     !.Notes = body.notes,
                     !.StartTime = IF body.start_time.kind = "time"
                                   THEN TimeParse(body.start_time) ELSE ZeroTime,
                     !.EndTime = end.n,
                     !.Metadata = [form |-> "generic", of |-> "null"]]]

\* variant: the event is written without being validated
RecordHandler_NoValidate(table, body, now, r, dbOK) ==
  LET d == DecodeEvent(body) IN
  IF ~d.ok THEN Outcome(400, NilData, TRUE, NoEffect(table))
  ELSE LET w == writeToDB(table, d.event, d.event.DryRun, dbOK) IN
       IF w.err # ErrNone THEN Outcome(500, NilData, TRUE, w)
       ELSE Outcome(200, EventData(w.event, FALSE), TRUE, w)

RecordHandler(table, body, now, r, dbOK) ==
  LET d == DecodeEvent(body) IN
  IF ~d.ok THEN Outcome(400, NilData, TRUE, NoEffect(table))
  ELSE LET v == ValidateAndRectify(d.event, now, r) IN
       IF v.err # ErrNone THEN Outcome(400, NilData, TRUE, NoEffect(table))
       ELSE LET w == Validated(v, writeToDB(table, v.event, v.event.DryRun, dbOK)) IN
            IF w.err # ErrNone THEN Outcome(500, NilData, TRUE, w)
            ELSE Outcome(200, EventData(w.event, FALSE), TRUE, w)

\* ------------------------------------------------- chat-platform verifier
\* The signature header is version, "=", hex pairs; a header without "=" has
\* eq = FALSE; the absent header is the empty string.
SlackNoHeader == [version |-> "", eq |-> FALSE, hex |-> <<>>]
SlackHeaderLen(h) == Len(h.version) + (IF h.eq THEN 1 ELSE 0) + 2 * Len(h.hex)

\* The timestamp header: absent, not an integer, or the integer n (Unix time,
\* counted in minutes here).
NoTimestamp == [kind |-> "missing", n |-> 0]
BadTimestamp == [kind |-> "text", n |-> 0]

\* -5 * time.Minute
SlackMaxAge == 5

VersionCode(version) == IF version = "v0" THEN 1 ELSE 2

SlackBodies ==
  {"", "garbage", "noactions", "nourl", "nochannel", "other", "submit_real",
   "submit_dry", "submit_nodesc", "submit_badstart", "submit_empty",
   "submit_other"}

SlackBodyCode(body) ==
  CASE body = "" -> 0
    [] body = "garbage" -> 1
    [] body = "noactions" -> 2
    [] body = "nourl" -> 3
    [] body = "nochannel" -> 4
    [] body = "other" -> 5
    [] body = "submit_real" -> 6
    [] body = "submit_dry" -> 7
    [] body = "submit_nodesc" -> 8
    [] body = "submit_badstart" -> 9
    [] body = "submit_empty" -> 11
    [] body = "submit_other" -> 12
    [] OTHER -> 10

\* hmac.New(sha256.New, v.Secret) over "version:timestamp:body"
HMACSlack(version, ts, body) ==
  <<16 * VersionCode(version) + ts.n, 100 + ts.n, SlackBodyCode(body)>>

\* variant: a timestamp exactly five minutes old is turned away as well
SlackValidate_Inclusive(sig, ts, body, unixNow, readable) ==
  IF SlackHeaderLen(sig) = 0 THEN "Missing X-Slack-Signature header"
  ELSE IF ~sig.eq THEN "Invalid signature format"
  ELSE IF ts.kind = "missing" THEN "Missing X-Slack-Request-Timestamp header"
  ELSE IF ts.kind # "int" THEN "Invalid timestamp"
  ELSE IF ts.n <= unixNow - SlackMaxAge THEN "Request is too old"
  ELSE IF ~readable THEN "read error"
  ELSE LET signed == HMACSlack(sig.version, ts, body)
           actual == HexDecodeInto(Len(signed), sig.hex) IN
       IF actual.panic THEN "panic"
       ELSE IF ~HMACEqual(signed, actual.bytes) THEN "Invalid SHA256 signature"
       ELSE ErrNone

\* The result is "" (accepted), an error text, or "panic" when hex.Decode
\* writes past the 32-byte buffer.
SlackValidate(sig, ts, body, unixNow, readable) ==
  IF SlackHeaderLen(sig) = 0 THEN "Missing X-Slack-Signature header"
  ELSE IF ~sig.eq THEN "Invalid signature format"
  ELSE IF ts.kind = "missing" THEN "Missing X-Slack-Request-Timestamp header"
  ELSE IF ts.kind # "int" THEN "Invalid timestamp"
  ELSE IF ts.n < unixNow - SlackMaxAge THEN "Request is too old"
  ELSE IF ~readable THEN "read error"
  ELSE LET signed == HMACSlack(sig.version, ts, body)
           actual == HexDecodeInto(Len(signed), sig.hex) IN
       IF actual.panic THEN "panic"
       ELSE IF ~HMACEqual(signed, actual.bytes) THEN "Invalid SHA256 signature"
       ELSE ErrNone

\* A panic in a handler is recovered by net/http, which writes no response.
SlackMiddleware(table, sig, ts, body, unixNow, readable, handled) ==
  LET err == SlackValidate(sig, ts, body, unixNow, readable) IN
  IF err = "panic" THEN Outcome(0, NilData, FALSE, NoEffect(table))
  ELSE IF err # ErrNone THEN Outcome(400, NilData, FALSE, NoEffect(table))
  ELSE handled

\* ------------------------------------------------- interactive submission
\* The decoded payload: actions is the sequence of action ids; the form
\* state gives, per field, "absent", "bad" (not of the expected JSON type) or
\* a value.  The date and time-of-day strings of start and end are carried as
\* the wall-clock reading they spell.
SubmitAction == "submit-button-action"
CommitOption == "value-0"

Absent == [kind |-> "absent"]
Bad == [kind |-> "bad"]

FormState(description, start, end, options) ==
  [description |-> [kind |-> "value", v |-> description],
   start |-> [kind |-> "value", wall |-> start],
   end |-> [kind |-> "value", wall |-> end],
   checkbox |-> [kind |-> "value", options |-> options]]

Submission(state) ==
  [kind |-> "json", actions |-> <<SubmitAction>>, response_url |-> "url",
   channel |-> "C1", user |-> "U1", state |-> state]

\* r.FormValue("payload") and json.Unmarshal into SlackInteractionData
DecodeInteraction(body) ==
  CASE body = "" -> [kind |-> "missing"]
    [] body = "garbage" -> [kind |-> "garbage"]
    [] body = "noactions" ->
         [Submission(FormState("outage", 2, 3, <<CommitOption>>))
            EXCEPT !.actions = <<>>]
    [] body = "nourl" ->
         [Submission(FormState("outage", 2, 3, <<CommitOption>>))
            EXCEPT !.response_url = ""]
    [] body = "nochannel" ->
         [Submission(FormState("outage", 2, 3, <<CommitOption>>))
            EXCEPT !.channel = ""]
    [] body = "other" ->
         [Submission(FormState("outage", 2, 3, <<CommitOption>>))
            EXCEPT !.actions = <<"start-date-action", SubmitAction>>]
    [] body = "submit_real" ->
         Submission(FormState("outage", 2, 3, <<"value-1", CommitOption>>))
    [] body = "submit_dry" ->
         Submission([FormState("outage", 2, 1, <<>>) EXCEPT !.checkbox = Absent])
    [] body = "submit_nodesc" ->
         Submission(FormState("", 2, 3, <<CommitOption>>))
    [] body = "submit_empty" ->
         Submission(FormState("outage", 2, 3, <<>>))
    [] body = "submit_other" ->
         Submission(FormState("", 2, 3, <<"value-1">>))
    [] OTHER ->
         Submission([FormState("outage", 2, 3, <<CommitOption>>) EXCEPT !.start = Bad])

\* variant: the channel id is not required
InteractionValidate_NoChannel(p) ==
  IF Len(p.actions) = 0 THEN "Must have at least one action"
  ELSE IF Len(p.response_url) = 0 THEN "Request is missing the reponse_url"
  ELSE ErrNone

\* SlackInteractionData.Validate
InteractionValidate(p) ==
  IF Len(p.actions) = 0 THEN "Must have at least one action"
  ELSE IF Len(p.response_url) = 0 THEN "Request is missing the reponse_url"
  ELSE IF Len(p.channel) = 0 THEN "Request is missing the channel id"
  ELSE ErrNone

\* the checkbox loop: options is a sequence of option values, "bad" standing
\* for an option that is not an object with a string value; the loop stops at
\* the first "value-0"
CheckboxCommits(options) ==
  \E i \in 1..Len(options) :
     options[i] = CommitOption /\ \A j \in 1..(i - 1) : options[j] # "bad"

CheckboxBad(options) ==
  \E i \in 1..Len(options) :
     options[i] = "bad" /\ \A j \in 1..(i - 1) : options[j] # CommitOption

\* variant: the event is never marked as a dry run
ParseState_NoDryRun(p, tz, now, r) ==
  LET st == p.state
      dry == FALSE
      e0 == [NewEvent EXCEPT !.EventType = "INCIDENT", !.DryRun = dry,
                             !.Notes = IF st.description.kind = "value"
                                       THEN st.description.v ELSE ""]
      start == [inst |-> st.start.wall - tz, off |-> tz]
      end == NullTimeUnmarshalJSON(AbsentTime,
               IF st.end.kind = "value"
               THEN [kind |-> "time", wall |-> st.end.wall, off |-> tz]
               ELSE JSONBad)
  IN
  IF st.description.kind = "bad" \/ st.start.kind = "bad" \/ st.end.kind = "bad"
     \/ st.checkbox.kind = "bad"
     \/ (st.checkbox.kind = "value" /\ CheckboxBad(st.checkbox.options))
  THEN [err |-> "Bad field", event |-> NewEvent, reads |-> <<>>, ids |-> <<>>]
  ELSE IF st.start.kind # "value"
  THEN [err |-> "Bad start date and/or time", event |-> NewEvent,
        reads |-> <<>>, ids |-> <<>>]
  ELSE IF end.err
  THEN [err |-> "Failed to parse timestamp for end time", event |-> NewEvent,
        reads |-> <<>>, ids |-> <<>>]
  ELSE ValidateAndRectify(
         [e0 EXCEPT !.StartTime = start, !.EndTime = end.n,
                    !.Metadata = [form |-> "typed", of |-> "postmortem"]],
         now, r)

\* SlackInteractionData.ParseState(tzOffsetSeconds); tz is the user's offset
ParseState(p, tz, now, r) ==
  LET st == p.state
      dry == ~(st.checkbox.kind = "value" /\ CheckboxCommits(st.checkbox.options))
      e0 == [NewEvent EXCEPT !.EventType = "INCIDENT", !.DryRun = dry,
                             !.Notes = IF st.description.kind = "value"
                                       THEN st.description.v ELSE ""]
      start == [inst |-> st.start.wall - tz, off |-> tz]
      end == NullTimeUnmarshalJSON(AbsentTime,
               IF st.end.kind = "value"
               THEN [kind |-> "time", wall |-> st.end.wall, off |-> tz]
               ELSE JSONBad)
  IN
  IF st.description.kind = "bad" \/ st.start.kind = "bad" \/ st.end.kind = "bad"
     \/ st.checkbox.kind = "bad"
     \/ (st.checkbox.kind = "value" /\ CheckboxBad(st.checkbox.options))
  THEN [err |-> "Bad field", event |-> NewEvent, reads |-> <<>>, ids |-> <<>>]
  ELSE IF st.start.kind # "value"
  THEN [err |-> "Bad start date and/or time", event |-> NewEvent,
        reads |-> <<>>, ids |-> <<>>]
  ELSE IF end.err
  THEN [err |-> "Failed to parse timestamp for end time", event |-> NewEvent,
        reads |-> <<>>, ids |-> <<>>]
  ELSE ValidateAndRectify(
         [e0 EXCEPT !.StartTime = start, !.EndTime = end.n,
                    !.Metadata = [form |-> "typed", of |-> "postmortem"]],
         now, r)

\* The goroutine the handler starts: a channel message for a real write, an
\* ephemeral reply to the response URL for a dry run.
Task(e) ==
  [kind |-> IF ~e.DryRun THEN "channel" ELSE "ephemeral", id |-> e.ID,
   state |-> "pending"]

\* payload.kind: "missing" (no payload form value), "garbage" (not JSON) or
\* "json"; lookup: the result of the users.info call, with the user's offset
SlackInteractionHandler(table, body, lookup, now, r, dbOK) ==
  LET payload == DecodeInteraction(body)
      With(o, lookups, spawn) == [o EXCEPT !.lookups = lookups, !.spawn = spawn]
  IN
  IF payload.kind # "json" THEN Outcome(400, NilData, TRUE, NoEffect(table))
  ELSE IF InteractionValidate(payload) # ErrNone
  THEN Outcome(400, NilData, TRUE, NoEffect(table))
  ELSE IF payload.actions[1] # SubmitAction
  THEN Outcome(200, NilData, TRUE, NoEffect(table))
  ELSE IF ~lookup.ok
  THEN With(Outcome(500, NilData, TRUE, NoEffect(table)), <<lookup>>, <<>>)
  ELSE LET ps == ParseState(payload, lookup.tz, now, r) IN
       IF ps.err # ErrNone
       THEN With(Outcome(400, NilData, TRUE, NoEffect(table)), <<lookup>>, <<>>)
       ELSE LET w == Validated(ps, writeToDB(table, ps.event, ps.event.DryRun, dbOK)) IN
            IF w.err # ErrNone
            THEN With(Outcome(500, NilData, TRUE, w), <<lookup>>, <<>>)
            ELSE With(Outcome(200, NilData, TRUE, w), <<lookup>>, <<Task(w.event)>>)

\* ------------------------------------------------------------ slash command
CommandBodies == {"garbage", "command"}

FormData == [kind |-> "form"]

\* SlackCommandHandler: r.ParseForm fails on a body that is not form-encoded;
\* the user's zone is looked up before the form is written
SlackCommandHandler(table, body, lookup) ==
  IF body = "garbage" THEN Outcome(400, NilData, TRUE, NoEffect(table))
  ELSE IF ~lookup.ok
  THEN [Outcome(500, NilData, TRUE, NoEffect(table)) EXCEPT !.lookups = <<lookup>>]
  ELSE [Outcome(200, FormData, TRUE, NoEffect(table)) EXCEPT !.lookups = <<lookup>>]

\* The values slackCommandResponse writes into the form for a user in zone
\* location at time now: the start date and time of day spell now on the
\* user's wall clock, the end date that of 24 * 365 hours earlier with the
\* same time of day.  Offsets and instants are counted in hours here.
DefaultEndLag == 8760

\* variant: the default end date lies a year ahead
slackCommandResponse_EndAhead(now, location) ==
  [startWall |-> now.inst + location,
   endWall |-> now.inst + location + DefaultEndLag]

slackCommandResponse(now, location) ==
  [startWall |-> now.inst + location,
   endWall |-> now.inst + location - DefaultEndLag]

\* The form is requested at time call.now by a user in zone call.location
\* and submitted unchanged, but for the description and the checkbox, when
\* the user's zone is call.tz.
Descriptions == {"", "outage"}
CheckboxChoices == {<<>>, <<CommitOption>>}

InitForm ==
  /\ \E now \in ClockValues, location \in Offsets, tz \in Offsets,
        description \in Descriptions, options \in CheckboxChoices :
       call = [done |-> FALSE, now |-> now, location |-> location, tz |-> tz,
               description |-> description, options |-> options]
  /\ nt = [op |-> "idle"]
  /\ ServerIdle

CallSubmitDefaults ==
  /\ ~call.done
  /\ \E later \in ClockValues, r \in Int63Values :
       LET form == slackCommandResponse(call.now, call.location)
           payload == Submission(FormState(call.description, form.startWall,
                                           form.endWall, call.options))
           res == ParseState(payload, call.tz, later, r) IN
       call' = [done |-> TRUE, now |-> call.now, location |-> call.location,
                tz |-> call.tz, description |-> call.description,
                options |-> call.options, form |-> form,
                out |-> res.event, err |-> res.err]
  /\ UNCHANGED <<nt, server>>

NextForm == CallSubmitDefaults

SpecForm == InitForm /\ [][NextForm]_vars

\* ----------------------------------------------------------------- inputs
JSONTime(wall, off) == [kind |-> "time", wall |-> wall, off |-> off]

MalformedRecord ==
  [malformed |-> TRUE, ID |-> 0, event_type |-> "", notes |-> "",
   start_time |-> JSONNull, end_time |-> JSONNull]

RecordBodies ==
  {MalformedRecord} \cup
  [malformed : {FALSE}, ID : {0, MaxID}, event_type : {"", "DEPLOYMENT", "custom"},
   notes : {"", "v1.2.3 rollout"},
   start_time : {JSONNull, JSONTime(1, 0)},
   end_time : {JSONNull, JSONBad, JSONTime(1, 1), JSONTime(MaxTime, 0)}]

OtherBody(body) == IF body = "garbage" THEN "pr_merged" ELSE "garbage"

ShortenHex(hex) == SubSeq(hex, 1, Len(hex) - 1)
SpoilHex(hex) == [hex EXCEPT ![Len(hex)] = NonHexPair]

\* The values tried for the X-Hub-Signature header of a request with this body
\* (digest: its HMAC): absent, correct, the digest of another body, a wrong
\* prefix of the right length, a digest one byte short, a last pair that is
\* not hex.
SignatureChoices(prefix, wrongPrefix, digest, otherDigest) ==
  {NoHeader,
   [prefix |-> prefix, hex |-> HexEncode(digest)],
   [prefix |-> prefix, hex |-> HexEncode(otherDigest)],
   [prefix |-> wrongPrefix, hex |-> HexEncode(digest)],
   [prefix |-> prefix, hex |-> ShortenHex(HexEncode(digest))],
   [prefix |-> prefix, hex |-> SpoilHex(HexEncode(digest))]}

SHA1Choices(body) ==
  SignatureChoices("sha1=", "sha2=", HMACSHA1(body), HMACSHA1(OtherBody(body)))

SHA256Choices(body) ==
  SignatureChoices("sha256=", "sha512=", HMACSHA256(body), HMACSHA256(OtherBody(body)))

\* ---------------------------------------------------------------- requests
InitServer ==
  /\ db = <<>>
  /\ req = NoRequest
  /\ resp = NoResponse
  /\ tasks = <<>>
  /\ slackLogChannel \in {"", "channel"}
  /\ call = NoCall
  /\ nt = [op |-> "idle"]

\* Handling one request: the table, the response and the trace of the
\* handling, and the goroutines it started.
Handle(request, o) ==
  /\ req' = request
  /\ db' = o.db
  /\ resp' = [status |-> o.status, data |-> o.data, next |-> o.next,
              execs |-> o.execs, ids |-> o.ids, reads |-> o.reads,
              posts |-> o.posts, lookups |-> o.lookups]
  /\ tasks' = tasks \o o.spawn
  /\ UNCHANGED <<call, nt, slackLogChannel>>

\* What the environment decides while a request is handled: the clock, the
\* random draw, whether the INSERT and the chat post succeed.  A request that
\* the middleware turns away consults none of them, and only the webhook
\* handlers render and post a notification before they answer.
Environments ==
  [now : ClockValues, r : Int63Values, dbOK : BOOLEAN, renderOK : BOOLEAN,
   postOK : BOOLEAN]
QuietEnvironment ==
  [now |-> [inst |-> 1, off |-> 0], r |-> 0, dbOK |-> TRUE, renderOK |-> TRUE,
   postOK |-> TRUE]
WriteEnvironments == {env \in Environments : env.renderOK /\ env.postOK}
EnvironmentsIf(consulted, notifies) ==
  IF ~consulted THEN {QuietEnvironment}
  ELSE IF notifies THEN Environments ELSE WriteEnvironments

\* POST /api/v0/record
RecordRequest ==
  /\ req = NoRequest /\ Len(db) < MaxRows
  /\ \E body \in RecordBodies :
     \E env \in EnvironmentsIf(DecodeEvent(body).ok, FALSE) :
       Handle([route |-> "record", body |-> body],
              RecordHandler(db, body, env.now, env.r, env.dbOK))

GitHubRequests ==
  UNION {[body : {body}, sig1 : SHA1Choices(body), sig256 : SHA256Choices(body),
          readable : BOOLEAN] : body \in GitHubBodies}

Accepted(g) == parseHook(g.sig1, g.sig256, g.body, g.readable) = ErrNone

\* POST /api/v0/github with X-GitHub-Event: pull_request
PullRequestRequest ==
  /\ req = NoRequest /\ Len(db) < MaxRows
  /\ \E g \in GitHubRequests :
     \E env \in EnvironmentsIf(Accepted(g), TRUE) :
       Handle([route |-> "github", event |-> "pull_request", body |-> g.body,
               sig1 |-> g.sig1, sig256 |-> g.sig256, readable |-> g.readable],
              GitHubMiddleware(db, g.sig1, g.sig256, g.body, g.readable,
                PullRequestHandler(db, RestoredBody(g.body), env.now, env.r, env.dbOK,
                                   slackLogChannel, env.renderOK, env.postOK)))

\* POST /api/v0/github with X-GitHub-Event: push
PushRequest ==
  /\ req = NoRequest /\ Len(db) < MaxRows
  /\ \E g \in GitHubRequests :
     \E env \in EnvironmentsIf(Accepted(g), TRUE) :
       Handle([route |-> "github", event |-> "push", body |-> g.body,
               sig1 |-> g.sig1, sig256 |-> g.sig256, readable |-> g.readable],
              GitHubMiddleware(db, g.sig1, g.sig256, g.body, g.readable,
                PushHandler(db, RestoredBody(g.body), env.now, env.r, env.dbOK,
                            slackLogChannel, env.renderOK, env.postOK)))

\* POST /api/v0/github with any other X-GitHub-Event
OtherEventRequest ==
  /\ req = NoRequest /\ Len(db) < MaxRows
  /\ \E g \in GitHubRequests :
       Handle([route |-> "github", event |-> "ping", body |-> g.body,
               sig1 |-> g.sig1, sig256 |-> g.sig256, readable |-> g.readable],
              GitHubMiddleware(db, g.sig1, g.sig256, g.body, g.readable,
                NotHandledHandler(db)))

\* The values tried for the X-Slack-Signature header: absent, correct, without
\* "=", another version with the digest made for that version, the digest of
\* another body, a digest one byte short, one byte long, a last pair that is
\* not hex.
SlackSignatureChoices(ts, body) ==
  LET good == HexEncode(HMACSlack("v0", ts, body)) IN
  {SlackNoHeader,
   [version |-> "v0", eq |-> TRUE, hex |-> good],
   [version |-> "v0", eq |-> FALSE, hex |-> good],
   [version |-> "v1", eq |-> TRUE, hex |-> HexEncode(HMACSlack("v1", ts, body))],
   [version |-> "v0", eq |-> TRUE,
    hex |-> HexEncode(HMACSlack("v0", ts, IF body = "" THEN "garbage" ELSE ""))],
   [version |-> "v0", eq |-> TRUE, hex |-> ShortenHex(good)],
   [version |-> "v0", eq |-> TRUE, hex |-> good \o <<[hi |-> 0, lo |-> 0]>>],
   [version |-> "v0", eq |-> TRUE, hex |-> SpoilHex(good)]}

UnixNows == {SlackMaxAge + 1, SlackMaxAge + 2}

Timestamps ==
  {NoTimestamp, BadTimestamp} \cup
  {[kind |-> "int", n |-> n] : n \in {0, 1, 2} \cup UnixNows}

SlackRequestsOf(bodies) ==
  UNION {[body : {body}, ts : {ts}, sig : SlackSignatureChoices(ts, body),
          unixNow : UnixNows, readable : BOOLEAN] :
           body \in bodies, ts \in Timestamps}

SlackRequests == SlackRequestsOf(SlackBodies)

SlackAccepted(q) == SlackValidate(q.sig, q.ts, q.body, q.unixNow, q.readable) = ErrNone

Lookups == {[ok |-> FALSE, tz |-> 0]} \cup [ok : {TRUE}, tz : Offsets]

\* POST /api/v0/slack/interaction
InteractionRequest ==
  /\ req = NoRequest /\ Len(db) < MaxRows /\ Len(tasks) < MaxTasks
  /\ \E q \in SlackRequests :
     \E env \in EnvironmentsIf(SlackAccepted(q), FALSE),
        lookup \in (IF SlackAccepted(q) THEN Lookups ELSE {[ok |-> FALSE, tz |-> 0]}) :
       Handle([route |-> "interaction", body |-> q.body, sig |-> q.sig, ts |-> q.ts,
               unixNow |-> q.unixNow, readable |-> q.readable],
              SlackMiddleware(db, q.sig, q.ts, q.body, q.unixNow, q.readable,
                SlackInteractionHandler(db, q.body, lookup, env.now, env.r, env.dbOK)))

\* POST /api/v0/slack/command
CommandRequest ==
  /\ req = NoRequest /\ Len(db) < MaxRows
  /\ \E q \in SlackRequestsOf(CommandBodies) :
     \E lookup \in (IF SlackAccepted(q) THEN Lookups ELSE {[ok |-> FALSE, tz |-> 0]}) :
       Handle([route |-> "command", body |-> q.body, sig |-> q.sig, ts |-> q.ts,
               unixNow |-> q.unixNow, readable |-> q.readable],
              SlackMiddleware(db, q.sig, q.ts, q.body, q.unixNow, q.readable,
                SlackCommandHandler(db, q.body, lookup)))

\* A goroutine started for a chat reply runs: the message is posted, or the
\* failure is logged.
RunTask ==
  \E i \in 1..Len(tasks), result \in {"posted", "failed"} :
     /\ tasks[i].state = "pending"
     /\ tasks' = [tasks EXCEPT ![i].state = result]
     /\ UNCHANGED <<call, nt, db, req, resp, slackLogChannel>>

\* The exchange is over: the server waits for the next request.
CloseRequest ==
  /\ req # NoRequest
  /\ req' = NoRequest
  /\ resp' = NoResponse
  /\ UNCHANGED <<call, nt, db, tasks, slackLogChannel>>

Next ==
  \/ RecordRequest
  \/ PullRequestRequest
  \/ PushRequest
  \/ OtherEventRequest
  \/ InteractionRequest
  \/ CommandRequest
  \/ RunTask
  \/ CloseRequest

Spec == InitServer /\ [][Next]_vars

\* -------------------------------------------------------------- properties
NonEmptyFields(d) == Len(d.EventType) > 0 /\ Len(d.Notes) > 0

\* C1: every candidate with non-empty event_type and notes is accepted and
\* leaves with an id that is strictly positive (id > 0).
C1_Original ==
  (call.done /\ NonEmptyFields(call.in)) =>
     (call.err = ErrNone /\ call.out.ID > 0)

\* The event_type and notes of the candidate Event that the request in req
\* leads its handler to build; some is FALSE when the handler builds none.
NoCandidate == [some |-> FALSE, EventType |-> "", Notes |-> ""]

RecordCandidate ==
  LET d == DecodeEvent(req.body) IN
  IF ~d.ok THEN NoCandidate
  ELSE [some |-> TRUE, EventType |-> d.event.EventType, Notes |-> d.event.Notes]

PullRequestCandidate ==
  LET p == DecodePullRequest(req.body) IN
  IF ~(parseHook(req.sig1, req.sig256, req.body, req.readable) = ErrNone
       /\ p.ok /\ p.Action = "closed" /\ p.Merged)
  THEN NoCandidate
  ELSE [some |-> TRUE, EventType |-> "PULL REQUEST", Notes |-> p.Title]

PushCandidate ==
  LET p == DecodePush(req.body) IN
  IF ~(parseHook(req.sig1, req.sig256, req.body, req.readable) = ErrNone
       /\ p.ok
       /\ (Contains(p.Ref, p.DefaultBranch) \/ Contains(p.Ref, p.MasterBranch)))
  THEN NoCandidate
  ELSE [some |-> TRUE, EventType |-> "PUSH", Notes |-> p.Message]

InteractionCandidate ==
  LET p == DecodeInteraction(req.body) IN
  IF SlackValidate(req.sig, req.ts, req.body, req.unixNow, req.readable) # ErrNone
     \/ p.kind # "json"
  THEN NoCandidate
  ELSE IF InteractionValidate(p) # ErrNone THEN NoCandidate
  ELSE IF p.actions[1] # SubmitAction \/ resp.lookups = <<>> THEN NoCandidate
  ELSE IF ~resp.lookups[1].ok \/ p.state.description.kind # "value"
          \/ p.state.start.kind # "value" \/ p.state.end.kind # "value"
  THEN NoCandidate
  ELSE [some |-> TRUE, EventType |-> "INCIDENT", Notes |-> p.state.description.v]

RequestCandidate ==
  CASE req.route = "record" -> RecordCandidate
    [] req.route = "github" ->
         IF req.event = "pull_request" THEN PullRequestCandidate
         ELSE IF req.event = "push" THEN PushCandidate
         ELSE NoCandidate
    [] req.route = "interaction" -> InteractionCandidate
    [] OTHER -> NoCandidate

EmptyField(c) == Len(c.EventType) = 0 \/ Len(c.Notes) = 0

\* C2: a candidate with an empty event_type or an empty notes is rejected by
\* ValidateAndRectify whatever the clock and the random draw, and on each of
\* the four entry paths the request that carries it executes no INSERT: no
\* statement is run, no id is assigned and the response is not a success.
C2_NoInsert ==
  (RequestCandidate.some /\ EmptyField(RequestCandidate)) =>
     /\ \A now \in ClockValues, r \in Int63Values :
          ValidateAndRectify(
            [NewEvent EXCEPT !.EventType = RequestCandidate.EventType,
                             !.Notes = RequestCandidate.Notes], now, r).err # ErrNone
     /\ resp.execs = <<>>
     /\ resp.ids = <<>>
     /\ resp.status \in {400, 500}

C2_Witness ==
  /\ req.route = "interaction" /\ req.body = "submit_nodesc"
  /\ RequestCandidate.some /\ EmptyField(RequestCandidate)
  /\ resp.lookups # <<>> /\ resp.execs = <<>> /\ resp.status = 400

\* C3: the end time never causes a rejection (the call fails exactly when
\* event_type or notes is empty); after a successful call end_time is present
\* only if strictly after start_time, and an end_time that was present and
\* equal to or before the start_time as it stands after defaulting is absent.
C3_EndTimeCleared ==
  call.done =>
     /\ (call.err = ErrNone) <=> NonEmptyFields(call.in)
     /\ call.err = ErrNone =>
          /\ call.out.EndTime.Valid =>
               call.out.EndTime.Time.inst > call.out.StartTime.inst
          /\ (/\ call.in.EndTime.Valid
              /\ call.in.EndTime.Time.inst <= call.out.StartTime.inst)
                => ~call.out.EndTime.Valid

C3_Witness ==
  /\ call.done /\ call.err = ErrNone
  /\ IsZero(call.in.StartTime) /\ call.in.EndTime.Valid
  /\ call.in.EndTime.Time.inst = call.now.inst
  /\ ~call.out.EndTime.Valid

\* C4 as stated: an end_time present and strictly after the supplied
\* start_time is still present and unchanged after the call.
C4_Original ==
  (/\ call.done /\ NonEmptyFields(call.in)
   /\ call.in.EndTime.Valid
   /\ call.in.EndTime.Time.inst > call.in.StartTime.inst)
     => (call.out.EndTime.Valid /\ call.out.EndTime.Time = call.in.EndTime.Time)

\* C4 amended: an end_time present and strictly after the start_time as it
\* stands after defaulting (the supplied start_time, or the clock value when
\* start_time was zero) is still present and equals the input end_time.
C4_EndTimeKept ==
  (/\ call.done /\ NonEmptyFields(call.in)
   /\ call.in.EndTime.Valid
   /\ call.in.EndTime.Time.inst >
        (IF call.in.StartTime.inst = 0 THEN call.now.inst
                                       ELSE call.in.StartTime.inst))
     => (/\ call.err = ErrNone
         /\ call.out.EndTime.Valid
         /\ call.out.EndTime.Time = call.in.EndTime.Time)

C4_Witness ==
  /\ call.done /\ call.err = ErrNone
  /\ ~IsZero(call.in.StartTime) /\ call.in.EndTime.Valid
  /\ call.in.EndTime.Time.inst > call.in.StartTime.inst
  /\ call.out.EndTime = call.in.EndTime

\* C5: a zero start_time becomes the clock value read during a successful
\* call; a non-zero start_time is left exactly as supplied.
C5_StartTimeDefault ==
  call.done =>
     /\ (call.err = ErrNone /\ call.in.StartTime.inst = 0)
          => call.out.StartTime = call.now
     /\ call.in.StartTime.inst # 0 => call.out.StartTime = call.in.StartTime

C5_Witness ==
  /\ call.done /\ call.err = ErrNone /\ call.in.StartTime.inst = 0
  /\ call.in.StartTime.off # 0 /\ call.out.StartTime = call.now

C7_Unmarshal ==
  (nt.op = "unmarshal" /\ nt.data.kind # "bad") =>
     /\ ~nt.err
     /\ (nt.data.kind = "null" \/ nt.data.wall = nt.data.off) => ~nt.out.Valid
     /\ (nt.data.kind = "time" /\ nt.data.wall # nt.data.off) =>
          /\ nt.out.Valid
          /\ nt.out.Time.inst + nt.out.Time.off = nt.data.wall
          /\ nt.out.Time.off = nt.data.off

C7_Witness ==
  /\ nt.op = "unmarshal" /\ nt.n.Valid /\ ~IsZero(nt.n.Time)
  /\ nt.data.kind = "time" /\ nt.data.wall = nt.data.off /\ nt.data.off # 0
  /\ ~nt.err /\ ~nt.out.Valid

\* C8: MarshalJSON yields JSON null for every absent value, whatever Time
\* holds, and the timestamp's textual form for every present value.
C8_Marshal ==
  nt.op = "marshal" =>
     /\ ~nt.n.Valid => nt.json = JSONNull
     /\ nt.n.Valid =>
          /\ nt.json.kind = "time"
          /\ nt.json.wall = nt.n.Time.inst + nt.n.Time.off
          /\ nt.json.off = nt.n.Time.off

C8_Witness ==
  /\ nt.op = "marshal" /\ ~nt.n.Valid /\ ~IsZero(nt.n.Time)
  /\ nt.json = JSONNull

\* C9 as stated: for every NullTime, MarshalJSON followed by UnmarshalJSON
\* yields the same presence flag and, when present, the identical instant.
C9_Original ==
  nt.op = "roundtrip" =>
     /\ ~nt.err
     /\ nt.out.Valid = nt.n.Valid
     /\ nt.n.Valid => nt.out.Time.inst = nt.n.Time.inst

\* C9 amended: the round trip keeps the presence flag and the instant for
\* every NullTime that is absent or present with a non-zero timestamp; a value
\* marked present whose timestamp is the zero timestamp comes back absent.
C9_RoundTrip ==
  nt.op = "roundtrip" =>
     /\ ~nt.err
     /\ (~nt.n.Valid \/ ~IsZero(nt.n.Time)) =>
          /\ nt.out.Valid = nt.n.Valid
          /\ nt.n.Valid => nt.out.Time.inst = nt.n.Time.inst
     /\ (nt.n.Valid /\ IsZero(nt.n.Time)) => ~nt.out.Valid

C9_Witness ==
  /\ nt.op = "roundtrip" /\ nt.n.Valid /\ ~IsZero(nt.n.Time)
  /\ nt.n.Time.off # 0 /\ nt.into.Time.inst # nt.n.Time.inst
  /\ nt.out.Valid /\ nt.out.Time.inst = nt.n.Time.inst

\* A signature header is the digest's hexadecimal text behind its prefix.
WellSigned(h, prefix, digest) == h = [prefix |-> prefix, hex |-> HexEncode(digest)]

\* C10 as stated: a source-control webhook request in which either header is
\* missing, has the wrong length or prefix, or carries a digest that is not
\* the HMAC of the raw body is answered 400 without the downstream handler
\* being invoked and without an INSERT, even when the other header is valid.
C10_Original ==
  (/\ req.route = "github"
   /\ \/ ~WellSigned(req.sig1, signaturePrefixSHA1, HMACSHA1(req.body))
      \/ ~WellSigned(req.sig256, signaturePrefixSHA256, HMACSHA256(req.body)))
     => (resp.status = 400 /\ ~resp.next /\ resp.execs = <<>>)

BothWellSigned(body) ==
  /\ WellSigned(req.sig1, signaturePrefixSHA1, HMACSHA1(body))
  /\ WellSigned(req.sig256, signaturePrefixSHA256, HMACSHA256(body))

\* C11: a source-control webhook request whose headers are "sha1=" and
\* "sha256=" followed by the hex HMACs of its (readable) raw body is accepted
\* and the downstream handler works on that very body: its answer is the one
\* the body decodes to, and a row it inserts carries the body as metadata and
\* the body's title or message as notes.  The same headers sent with any
\* other body are answered 400 without the handler being invoked.
C11_AcceptedWithBody ==
  req.route = "github" =>
     /\ (BothWellSigned(req.body) /\ req.readable) =>
          /\ resp.next
          /\ req.event = "pull_request" =>
               /\ (resp.status = 400) <=> ~DecodePullRequest(req.body).ok
               /\ resp.execs = <<"ok">> =>
                    /\ db[Len(db)].metadata = req.body
                    /\ db[Len(db)].notes = DecodePullRequest(req.body).Title
          /\ req.event = "push" =>
               /\ (resp.status = 400) <=> ~DecodePush(req.body).ok
               /\ resp.execs = <<"ok">> =>
                    /\ db[Len(db)].metadata = req.body
                    /\ db[Len(db)].notes = DecodePush(req.body).Message
     /\ (\E b \in GitHubBodies \ {req.body} : BothWellSigned(b)) =>
          (resp.status = 400 /\ ~resp.next /\ resp.execs = <<>>)

C11_Witness ==
  /\ req.route = "github" /\ req.event = "pull_request" /\ req.body = "pr_merged"
  /\ BothWellSigned(req.body) /\ resp.next /\ resp.execs = <<"ok">>
  /\ db[Len(db)].metadata = "pr_merged" /\ db[Len(db)].notes = "Fix login"

SlackRoute == req.route \in {"interaction", "command"}

\* the header "<version>=" followed by the hex HMAC of "<version>:ts:body"
SlackSigned(version) ==
  req.sig = [version |-> version, eq |-> TRUE,
             hex |-> HexEncode(HMACSlack(version, req.ts, req.body))]

\* C12: a chat-platform request whose timestamp is more than five minutes
\* older than the verification time is answered 400 without the handler being
\* invoked, whatever its signature, a correct one included; a correctly signed (readable) request
\* whose timestamp is at most five minutes old, or in the future, reaches the
\* handler.
C12_ReplayWindow ==
  (SlackRoute /\ req.ts.kind = "int") =>
     /\ req.unixNow - req.ts.n > SlackMaxAge =>
          (resp.status = 400 /\ ~resp.next)
     /\ (SlackSigned("v0") /\ req.readable /\ req.unixNow - req.ts.n <= SlackMaxAge) =>
          resp.next

C12_Witness ==
  /\ SlackRoute /\ req.ts.kind = "int" /\ SlackSigned("v0") /\ req.readable
  /\ req.unixNow - req.ts.n = SlackMaxAge + 1
  /\ resp.status = 400 /\ ~resp.next

\* the signature is not a well-formed hex digest of the expected length
MalformedDigest(h) ==
  \/ Len(h.hex) # Len(HMACSlack("v0", NoTimestamp, ""))
  \/ \E i \in 1..Len(h.hex) : ~IsHexPair(h.hex[i])

\* C13 as stated: a chat-platform request with a missing signature or
\* timestamp header, a signature header without "=", a non-integer timestamp,
\* a signature that is too short, too long or not hex, an expired timestamp
\* or a signature that is not the HMAC is answered 400 and the handler is not
\* invoked.
C13_Original ==
  (/\ SlackRoute
   /\ \/ SlackHeaderLen(req.sig) = 0
      \/ ~req.sig.eq
      \/ req.ts.kind # "int"
      \/ req.unixNow - req.ts.n > SlackMaxAge
      \/ MalformedDigest(req.sig)
      \/ req.sig.hex # HexEncode(HMACSlack(req.sig.version, req.ts, req.body)))
     => (resp.status = 400 /\ ~resp.next)

\* C14 as stated: a chat-platform request reaches the handler only if its
\* signature header is "v0=" followed by the hex HMAC-SHA256 of
\* "v0:<timestamp>:<body>"; no other version prefix is accepted.
C14_Original ==
  (SlackRoute /\ resp.next) => SlackSigned("v0")

\* C15 as stated: a direct-API POST that decodes, has a non-empty event_type
\* (of any value) and non-empty notes, and whose INSERT succeeds, is answered
\* 200 with the persisted Event: a non-zero id, the event_type and notes as
\* sent, start_time equal to the clock value read by validation when none was
\* supplied, and the same values as the row that was inserted.
C15_Original ==
  (/\ req.route = "record" /\ RecordCandidate.some /\ ~EmptyField(RecordCandidate)
   /\ resp.execs = <<"ok">>)
     => /\ resp.status = 200 /\ resp.data.kind = "event"
        /\ resp.data.event.ID # 0
        /\ resp.data.event.EventType = req.body.event_type
        /\ resp.data.event.Notes = req.body.notes
        /\ req.body.start_time = JSONNull =>
             (resp.reads # <<>> /\ resp.data.event.StartTime = resp.reads[1])
        /\ db[Len(db)] = Row(resp.data.event)

\* a present source-control signature header of the wrong length or prefix,
\* or with a pair that is not hex
MalformedHeader(h, prefix, length) ==
  /\ HeaderLen(h) # 0
  /\ \/ HeaderLen(h) # length
     \/ ~HasPrefix(h, prefix)
     \/ \E i \in 1..Len(h.hex) : ~IsHexPair(h.hex[i])

ValidationFailure ==
  \/ RequestCandidate.some /\ EmptyField(RequestCandidate)
  \/ /\ req.route = "github"
     /\ \/ MalformedHeader(req.sig1, signaturePrefixSHA1, signatureLengthSHA1)
        \/ MalformedHeader(req.sig256, signaturePrefixSHA256, signatureLengthSHA256)
  \/ /\ SlackRoute
     /\ SlackHeaderLen(req.sig) # 0
     /\ (~req.sig.eq \/ MalformedDigest(req.sig) \/ req.ts.kind = "text")

\* C16 as stated: on each entry path a request that fails validation (an
\* empty event_type or notes, a malformed signature, a malformed timestamp)
\* is answered 400 and neither an INSERT nor a chat post is performed.
C16_Original ==
  ValidationFailure =>
     (resp.status = 400 /\ resp.execs = <<>> /\ resp.posts = <<>>)

\* C17 as stated: once the INSERT of a request's event has succeeded, a
\* failed chat notification does not change the answer: the caller receives
\* the success response.
C17_Original ==
  (req # NoRequest /\ resp.execs = <<"ok">> /\ resp.posts = <<"error">>)
     => resp.status = 200

\* C18 as stated: a failed INSERT is answered 500 with no chat post and no
\* row stored, and a 500 answer is only given for an event that was not
\* stored.
C18_Original ==
  req # NoRequest =>
     /\ resp.execs = <<"error">> =>
          (resp.status = 500 /\ resp.data = NilData /\ resp.posts = <<>>)
     /\ resp.status = 500 => resp.execs # <<"ok">>

\* C19 as stated: for a request that persists an event, the chat
\* notification is not awaited by the handler: no chat post has been made
\* when the response is written (it is left to a goroutine), the answer does
\* not depend on it, and it is attempted at most once.
C19_Original ==
  (req # NoRequest /\ resp.execs = <<"ok">>) =>
     (resp.posts = <<>> /\ resp.status = 200)

\* the checkbox action's selected options contain "value-0"
Committed(p) ==
  /\ p.state.checkbox.kind = "value"
  /\ \E i \in 1..Len(p.state.checkbox.options) :
        p.state.checkbox.options[i] = CommitOption

NearestMinute(seconds, total) ==
  /\ 60 * total - Abs(seconds) <= 30
  /\ Abs(seconds) - 60 * total <= 30

C21_OffsetSuffix ==
  call.done /\ "tz" \in DOMAIN call =>
    /\ call.start.suffix.sign = (IF call.tz >= 0 THEN "+" ELSE "-")
    /\ call.start.suffix.hours >= 0
    /\ call.start.suffix.minutes \in 0..59
    /\ NearestMinute(call.tz,
                     60 * call.start.suffix.hours + call.start.suffix.minutes)
    /\ call.end.suffix = call.start.suffix

\* a negative offset whose rounding carries into the hour: -3599 seconds is
\* written -01:00
C21_Witness ==
  /\ call.done /\ "tz" \in DOMAIN call
  /\ call.tz = -3599
  /\ call.start.suffix = [sign |-> "-", hours |-> 1, minutes |-> 0]
  /\ call.end.suffix = call.start.suffix

\* C22: a correctly signed webhook request whose event type has no handler is
\* let through by the verifier and answered 200, and handling it executes no
\* INSERT, posts nothing and leaves the events table as it was.
UnhandledEvent ==
  /\ req.route = "github" /\ req.event \notin {"pull_request", "push"}
  /\ BothWellSigned(req.body) /\ req.readable

NotYetHandled ==
  resp.status = 200 /\ resp.next /\ resp.execs = <<>> /\ resp.posts = <<>>

C22_NotYetHandled ==
  [][UnhandledEvent' => (NotYetHandled' /\ db' = db)]_vars

C22_Witness ==
  /\ UnhandledEvent /\ req.body = "pr_merged"
  /\ resp.status = 200 /\ resp.next /\ db = <<>>

\* C23: the events table is append-only and an event is persisted once: the
\* rows already in the table are never changed or removed; handling a request
\* executes at most one INSERT and adds exactly the row of a successful one;
\* a request whose candidate passed validation for a real (not dry-run) write
\* executes exactly one INSERT; nothing but the handling of a request touches
\* the table.
AcceptedForWrite ==
  /\ req.route \in {"record", "github", "interaction"}
  /\ resp.ids # <<>>
  /\ req.route = "interaction" => Committed(DecodeInteraction(req.body))

Handling == req = NoRequest /\ req' # NoRequest

C24_RejectedUnchanged ==
  call.done =>
     /\ (call.err # ErrNone) <=> ~NonEmptyFields(call.in)
     /\ call.err # ErrNone => call.out = call.in

\* a rejected candidate that validation would have rewritten in all three
\* fields: zero start_time, end_time present, caller-chosen id
C24_Witness ==
  /\ call.done /\ call.err = ErrNotes /\ call.out = call.in
  /\ call.in.EventType = "DEPLOYMENT"
  /\ IsZero(call.in.StartTime) /\ call.in.EndTime.Valid
  /\ call.in.ID # call.rnd

\* C25 as stated: a chat message describing an event as created is sent only
\* for an event whose INSERT was executed and succeeded: a message a handler
\* posted itself follows a successful INSERT of the same request, and a
\* message posted by a goroutine is about an event that has a row in the
\* table, never about a dry run.
C25_Original ==
  /\ (req # NoRequest /\ resp.posts = <<"ok">>) => resp.execs = <<"ok">>
  /\ \A i \in 1..Len(tasks) :
        tasks[i].state = "posted" =>
           /\ tasks[i].kind # "ephemeral"
           /\ \E j \in 1..Len(db) : db[j].id = tasks[i].id

\* C26 as stated: on every route the handler has waited on no call to the
\* chat platform when it writes its response: no user-info lookup and no
\* message post has been made by then.
C26_Original ==
  req # NoRequest => (resp.lookups = <<>> /\ resp.posts = <<>>)

\* A correctly signed pull-request webhook whose body decodes.
SignedPullRequest ==
  /\ req.route = "github" /\ req.event = "pull_request"
  /\ BothWellSigned(req.body) /\ req.readable
  /\ DecodePullRequest(req.body).ok

MergedPullRequest(p) == p.Action = "closed" /\ p.Merged

\* C27 as stated: an INSERT is executed only for a payload that is closed
\* and merged, every other payload is answered 200 with no INSERT and no
\* notification, and the row persisted has type 'PULL REQUEST', start_time
\* equal to the pull request's updated_at and notes equal to its title.
C27_Original ==
  SignedPullRequest =>
     LET p == DecodePullRequest(req.body) IN
     /\ ~MergedPullRequest(p) =>
          (resp.status = 200 /\ resp.execs = <<>> /\ resp.posts = <<>>)
     /\ resp.execs # <<>> => MergedPullRequest(p)
     /\ resp.execs = <<"ok">> =>
          /\ db[Len(db)].event_type = "PULL REQUEST"
          /\ db[Len(db)].start_time = p.UpdatedAt
          /\ db[Len(db)].notes = p.Title

\* C27: as above, except that the row's start_time is the pull request's
\* updated_at only when the payload carries one; when updated_at is missing
\* (the zero time) the row's start_time is the clock reading of validation.
C27_MergedOnly ==
  SignedPullRequest =>
     LET p == DecodePullRequest(req.body) IN
     /\ ~MergedPullRequest(p) =>
          (resp.status = 200 /\ resp.execs = <<>> /\ resp.posts = <<>>)
     /\ resp.execs # <<>> => MergedPullRequest(p)
     /\ resp.execs = <<"ok">> =>
          /\ db[Len(db)].event_type = "PULL REQUEST"
          /\ db[Len(db)].notes = p.Title
          /\ ~IsZero(p.UpdatedAt) => db[Len(db)].start_time = p.UpdatedAt
          /\ IsZero(p.UpdatedAt) =>
               (resp.reads # <<>> /\ db[Len(db)].start_time = resp.reads[1])

\* a merged pull request without updated_at is persisted with the clock's time
C27_Witness ==
  /\ SignedPullRequest /\ req.body = "pr_nodate"
  /\ resp.execs = <<"ok">> /\ resp.status = 200
  /\ db[Len(db)].event_type = "PULL REQUEST" /\ db[Len(db)].notes = "Fix login"
  /\ db[Len(db)].start_time = resp.reads[1]

\* A correctly signed push webhook whose body decodes.
SignedPush ==
  /\ req.route = "github" /\ req.event = "push"
  /\ BothWellSigned(req.body) /\ req.readable
  /\ DecodePush(req.body).ok

\* the ref is refs/heads/ followed by the (non-empty) branch name
NamesBranch(ref, branch) == branch # <<>> /\ ref = <<"refs/heads/">> \o branch

\* C28 as stated: for every push payload, those with an empty or missing
\* default_branch or master_branch included, a push to a ref that names
\* neither the default branch nor the master branch is answered 200 with no
\* INSERT and no notification.
C28_Original ==
  SignedPush =>
     LET p == DecodePush(req.body) IN
     (~NamesBranch(p.Ref, p.DefaultBranch) /\ ~NamesBranch(p.Ref, p.MasterBranch))
        => (resp.status = 200 /\ resp.execs = <<>> /\ resp.posts = <<>>)

\* C29: a submission that keeps the form's default dates and times and has a
\* non-empty description is accepted, and its event has no end_time, whatever
\* the user's zone offset is when the form is made and when it is submitted.
C29_DefaultsNoEndTime ==
  (call.done /\ call.description # "") =>
     /\ call.err = ErrNone
     /\ ~call.out.EndTime.Valid

\* the zone changed between the command and the submission
C29_Witness ==
  /\ call.done /\ call.description = "outage" /\ call.err = ErrNone
  /\ call.location = 1 /\ call.tz = -1
  /\ call.form.endWall = call.form.startWall - DefaultEndLag
  /\ ~call.out.EndTime.Valid

\* An interactive request that passed the verifier and carries a JSON payload.
InteractionHandled ==
  /\ req.route = "interaction" /\ resp.next
  /\ DecodeInteraction(req.body).kind = "json"

Complete(p) == Len(p.actions) > 0 /\ p.response_url # "" /\ p.channel # ""

IsSubmit(p) == Complete(p) /\ p.actions[1] = SubmitAction

\* C30: handling a verified interactive request looks up the user, executes
\* an INSERT or starts a notification only when the payload has an action, a
\* response_url and a channel id and its first action is
\* 'submit-button-action'; a payload that lacks one of the three is answered
\* 400 and one whose first action is another action is answered 200, in both
\* cases with no lookup, no INSERT, no post, no goroutine and the table as it
\* was.
C30_SubmitOnly ==
  [][(Handling /\ InteractionHandled') =>
       LET p == DecodeInteraction(req'.body) IN
       /\ ~IsSubmit(p) =>
            /\ resp'.status = (IF ~Complete(p) THEN 400 ELSE 200)
            /\ resp'.lookups = <<>> /\ resp'.execs = <<>> /\ resp'.posts = <<>>
            /\ tasks' = tasks /\ db' = db
       /\ IsSubmit(p) => resp'.lookups # <<>>]_vars

\* a verified request whose first action is the date picker: 200, nothing done
C30_Witness ==
  /\ InteractionHandled /\ req.body = "other"
  /\ DecodeInteraction(req.body).actions[1] = "start-date-action"
  /\ resp.status = 200 /\ resp.lookups = <<>> /\ resp.execs = <<>>
  /\ tasks = <<>> /\ db = <<>>

====
